---- MODULE Spec2Model ----
(***************************************************************************)
(* Model of app/frontend/src/components/Example/ExampleList.tsx.           *)
(*                                                                         *)
(* A JavaScript string is modelled as its sequence of UTF-16 code units    *)
(* (every character of the literals lies in the Basic Multilingual Plane,  *)
(* so one code unit per character).  A function value (a callback) is      *)
(* modelled by its identity, a TLA+ string.                                *)
(***************************************************************************)
EXTENDS Naturals, Sequences, FiniteSets

VARIABLES
    examples,          \* run-time content of the module-level array EXAMPLES
    onExampleClicked,  \* the prop the parent passed at the latest render
    rendered,          \* children of the <ul> produced by the latest render
    calls,             \* log of callback invocations: [cb, arg], in order
    errors,            \* where a TypeError was thrown so far: "render", "click"
    renderLog,         \* history: the callback passed at each render, in order
    firstElement,      \* history: the children produced by the first render
    activations        \* history: the index of each activated item, in order

vars == <<examples, onExampleClicked, rendered, calls, errors, renderLog,
          firstElement, activations>>

\* Bounds of the exploration.
MaxRenders == 3
MaxActivations == 3

\* The value of a prop that was not supplied.
Undefined == "undefined"

\* Identities of the functions a parent may pass as onExampleClicked.
Callbacks == {"handlerA", "handlerB"}

\* What a caller that ignores the Props type may pass.
UntypedCallbacks == Callbacks \cup {Undefined}

\* Variant of the literal: the second entry's value lacks the question mark.
EXAMPLES_Differing ==
    << [ text  |-> <<35531, 21578, 35380, 25105, 23637, 30849, 22283, 38555,
                     30340, 20844, 21496, 27010, 27841>>,
         value |-> <<35531, 21578, 35380, 25105, 23637, 30849, 22283, 38555,
                     30340, 20844, 21496, 27010, 27841>> ],
       [ text  |-> <<23637, 30849, 22283, 38555, 30340, 26680, 24515, 20729,
                     20540, 63>>,
         value |-> <<23637, 30849, 22283, 38555, 30340, 26680, 24515, 20729,
                     20540>> ],
       [ text  |-> <<23637, 30849, 22283, 38555, 30340, 36000, 36012, 20154,
                     26159, 63>>,
         value |-> <<23637, 30849, 22283, 38555, 30340, 36000, 36012, 20154,
                     26159, 63>> ] >>

\* The literal of the module-level array, text and value as written.
EXAMPLES ==
    << [ text  |-> <<35531, 21578, 35380, 25105, 23637, 30849, 22283, 38555,
                     30340, 20844, 21496, 27010, 27841>>,
         value |-> <<35531, 21578, 35380, 25105, 23637, 30849, 22283, 38555,
                     30340, 20844, 21496, 27010, 27841>> ],
       [ text  |-> <<23637, 30849, 22283, 38555, 30340, 26680, 24515, 20729,
                     20540, 63>>,
         value |-> <<23637, 30849, 22283, 38555, 30340, 26680, 24515, 20729,
                     20540, 63>> ],
       [ text  |-> <<23637, 30849, 22283, 38555, 30340, 36000, 36012, 20154,
                     26159, 63>>,
         value |-> <<23637, 30849, 22283, 38555, 30340, 36000, 36012, 20154,
                     26159, 63>> ] >>

\* One <li key={i}><Example text value onClick /></li> of the output.
Item(x, i, cb) ==
    [key |-> i - 1, text |-> x.text, value |-> x.value, onClick |-> cb]

\* ---- Variants of ExampleList, each with one plausible defect ----

\* Every item gets the value of the last entry (a stale loop variable).
ExampleList_LastValue(ex, cb) ==
    [ element  |-> [i \in 1..Len(ex) |->
                      [Item(ex[i], i, cb) EXCEPT !.value = ex[Len(ex)].value]],
      examples |-> ex,
      calls    |-> <<>>,
      thrown   |-> FALSE ]

\* EXAMPLES.slice(1).map(...): the first entry is dropped.
ExampleList_SkipFirst(ex, cb) ==
    [ element  |-> [i \in 1..(Len(ex) - 1) |-> Item(ex[i + 1], i, cb)],
      examples |-> ex,
      calls    |-> <<>>,
      thrown   |-> FALSE ]

\* value={EXAMPLES[(i + 1) % n].value}: text and value of different entries.
ExampleList_CrossedValue(ex, cb) ==
    [ element  |-> [i \in 1..Len(ex) |->
                      [Item(ex[i], i, cb)
                          EXCEPT !.value = ex[(i % Len(ex)) + 1].value]],
      examples |-> ex,
      calls    |-> <<>>,
      thrown   |-> FALSE ]

\* while (EXAMPLES.length) { x = EXAMPLES.shift(); ... }: consumes the array.
ExampleList_Shift(ex, cb) ==
    [ element  |-> [i \in 1..Len(ex) |-> Item(ex[i], i, cb)],
      examples |-> <<>>,
      calls    |-> <<>>,
      thrown   |-> FALSE ]

\* EXAMPLES.reverse().map(...): reverses the array in place at every render.
ExampleList_ReverseInPlace(ex, cb) ==
    [ element  |-> [i \in 1..Len(ex) |-> Item(ex[Len(ex) + 1 - i], i, cb)],
      examples |-> [i \in 1..Len(ex) |-> ex[Len(ex) + 1 - i]],
      calls    |-> <<>>,
      thrown   |-> FALSE ]

\* onClick={onExampleClicked(x.value)}: calls the callback while rendering
\* and passes its (void) result on.
ExampleList_CallsDuringRender(ex, cb) ==
    [ element  |-> [i \in 1..Len(ex) |-> Item(ex[i], i, Undefined)],
      examples |-> ex,
      calls    |-> [i \in 1..Len(ex) |-> [cb |-> cb, arg |-> ex[i].value]],
      thrown   |-> FALSE ]

\* if (!onExampleClicked) return null: a check at render time.
ExampleList_Guarded(ex, cb) ==
    [ element  |-> IF cb = Undefined
                   THEN <<>>
                   ELSE [i \in 1..Len(ex) |-> Item(ex[i], i, cb)],
      examples |-> ex,
      calls    |-> <<>>,
      thrown   |-> FALSE ]

\* onClick={() => onExampleClicked(x.value)}: a fresh closure per item.
ExampleList_Wrapped(ex, cb) ==
    [ element  |-> [i \in 1..Len(ex) |-> Item(ex[i], i, "inlineArrow")],
      examples |-> ex,
      calls    |-> <<>>,
      thrown   |-> FALSE ]

\* The function component: EXAMPLES.map((x, i) => <li key={i}>...</li>).
\* element: the children of the <ul>; examples: the array after the call
\* (map does not touch its receiver); calls: callback invocations made while
\* rendering (none); thrown: whether rendering raised (no check is made).
ExampleList(ex, cb) ==
    [ element  |-> [i \in 1..Len(ex) |-> Item(ex[i], i, cb)],
      examples |-> ex,
      calls    |-> <<>>,
      thrown   |-> FALSE ]

\* Variant: the clicked item is removed from the list (one-shot examples),
\* which shifts every later item.
ItemsAfterClick_Remove(items, i) ==
    [j \in 1..(Len(items) - 1) |-> IF j < i THEN items[j] ELSE items[j + 1]]

\* The component declares no state and no effect, so a click schedules no
\* re-render: the children on screen after a click on item i are the same.
ItemsAfterClick(items, i) == items

\* Example's click handler: onClick(value).  Calling undefined raises a
\* TypeError in the handler and no callback runs.
ExampleClick(item) ==
    IF item.onClick = Undefined
    THEN [calls |-> <<>>, thrown |-> TRUE]
    ELSE [calls |-> <<[cb |-> item.onClick, arg |-> item.value]>>,
          thrown |-> FALSE]

Init ==
    /\ examples = EXAMPLES
    /\ onExampleClicked = Undefined
    /\ rendered = <<>>
    /\ calls = <<>>
    /\ errors = {}
    /\ renderLog = <<>>
    /\ firstElement = <<>>
    /\ activations = <<>>

\* The parent renders <ExampleList onExampleClicked={cb} />.
Render(cb) ==
    /\ Len(renderLog) < MaxRenders
    /\ LET r == ExampleList(examples, cb)
           out == IF r.thrown THEN <<>> ELSE r.element
       IN  /\ onExampleClicked' = cb
           /\ examples' = r.examples
           /\ rendered' = out
           /\ calls' = calls \o r.calls
           /\ errors' = IF r.thrown THEN errors \cup {"render"} ELSE errors
           /\ firstElement' = IF renderLog = <<>> THEN out ELSE firstElement
    /\ renderLog' = Append(renderLog, cb)
    /\ UNCHANGED activations

\* The user activates (clicks) the i-th item on screen.
Activate(i) ==
    /\ i \in DOMAIN rendered
    /\ Len(activations) < MaxActivations
    /\ LET r == ExampleClick(rendered[i])
       IN  /\ calls' = calls \o r.calls
           /\ errors' = IF r.thrown THEN errors \cup {"click"} ELSE errors
    /\ rendered' = ItemsAfterClick(rendered, i)
    /\ activations' = Append(activations, i)
    /\ UNCHANGED <<examples, onExampleClicked, renderLog, firstElement>>

\* Callers that respect the Props type.
Next ==
    \/ \E cb \in Callbacks : Render(cb)
    \/ \E i \in 1..Len(EXAMPLES) : Activate(i)

Spec == Init /\ [][Next]_vars

\* Callers that may leave the callback out.
NextUntyped ==
    \/ \E cb \in UntypedCallbacks : Render(cb)
    \/ \E i \in 1..Len(EXAMPLES) : Activate(i)

SpecUntyped == Init /\ [][NextUntyped]_vars

\* ------------------------------------------------------------------
\* Properties
\* ------------------------------------------------------------------

\* C1: activating item i invokes the caller-supplied callback exactly once,
\* with argument EXAMPLES[i].value and with no other entry's value; activating
\* the second item delivers the code units of the second literal.
C1_ActivationCallsOnceWithValue ==
    [][\A i \in 1..Len(EXAMPLES) :
          (activations' = Append(activations, i)) =>
             /\ calls' = Append(calls, [cb  |-> onExampleClicked,
                                        arg |-> EXAMPLES[i].value])
             /\ (i = 2 => calls'[Len(calls')].arg =
                            <<23637, 30849, 22283, 38555, 30340, 26680, 24515,
                              20729, 20540, 63>>)]_vars

\* The second item was activated last and its call is the last one logged.
C1_Witness ==
    /\ activations # <<>>
    /\ activations[Len(activations)] = 2
    /\ Len(calls) = Len(activations)
    /\ calls[Len(calls)] = [cb |-> onExampleClicked, arg |-> EXAMPLES[2].value]

\* C2: once rendered, the list holds exactly N = 3 items, and item i is made
\* from EXAMPLES[i]: same order, none dropped, duplicated or reordered.
C2_OneItemPerEntryInOrder ==
    renderLog # <<>> =>
        /\ Len(rendered) = Len(EXAMPLES)
        /\ Len(rendered) = 3
        /\ \A i \in 1..Len(rendered) :
              /\ rendered[i].key = i - 1
              /\ [text |-> rendered[i].text, value |-> rendered[i].value]
                    = EXAMPLES[i]
        /\ \A i, j \in 1..Len(rendered) :
              i # j => rendered[i].value # rendered[j].value

C2_Witness ==
    /\ renderLog # <<>>
    /\ Len(rendered) = 3
    /\ rendered[1].text = EXAMPLES[1].text
    /\ rendered[3].text = EXAMPLES[3].text

\* C3: each item's text is EXAMPLES[i].text and its value is EXAMPLES[i].value
\* of that same entry; text and value never come from different entries.
C3_TextAndValueOfSameEntry ==
    \A i \in DOMAIN rendered :
        /\ rendered[i].text = EXAMPLES[i].text
        /\ rendered[i].value = EXAMPLES[i].value
        /\ \A j, k \in 1..Len(EXAMPLES) :
              (rendered[i].text = EXAMPLES[j].text
                  /\ rendered[i].value = EXAMPLES[k].value) => j = k

C3_Witness ==
    /\ Len(rendered) = 3
    /\ rendered[2].text = EXAMPLES[2].text
    /\ rendered[2].value = EXAMPLES[2].value

\* C4: the array is never modified: after any renders and activations it has
\* three entries, each equal to the entry of the initial literal.
C4_ExamplesNeverModified ==
    /\ Len(examples) = 3
    /\ examples = EXAMPLES

C4_Witness ==
    /\ Len(renderLog) >= 2
    /\ Len(activations) >= 2
    /\ examples = EXAMPLES

\* C5: an activation changes nothing that is rendered: every item's text,
\* value and callback, the array and the prop are as before the activation.
C5_ActivationLeavesItemsAlone ==
    [][(activations' # activations) =>
          /\ rendered' = rendered
          /\ examples' = examples
          /\ onExampleClicked' = onExampleClicked]_vars

\* Two different items were activated and all three items are on screen.
C5_Witness ==
    /\ Len(activations) >= 2
    /\ activations[1] # activations[2]
    /\ Len(rendered) = 3

\* C6: whenever the current render was made with the callback of the first
\* render, its output equals the output of the first render, whatever renders
\* and activations happened in between.
C6_RerenderEqualsFirstRender ==
    (renderLog # <<>> /\ onExampleClicked = renderLog[1]) =>
        rendered = firstElement

\* First callback, then another one, then the first again, with an
\* activation somewhere.
C6_Witness ==
    /\ Len(renderLog) >= 3
    /\ renderLog[2] # renderLog[1]
    /\ renderLog[3] = renderLog[1]
    /\ onExampleClicked = renderLog[1]
    /\ activations # <<>>
    /\ Len(firstElement) = 3
    /\ rendered = firstElement

\* C7: in every entry text and value are the same string, so every call
\* receives exactly the string its item displays.
C7_TextEqualsValue ==
    /\ \A i \in DOMAIN examples : examples[i].text = examples[i].value
    /\ \A i \in DOMAIN rendered : rendered[i].text = rendered[i].value
    /\ \A k \in DOMAIN calls :
          k <= Len(activations) => calls[k].arg = EXAMPLES[activations[k]].text

C7_Witness ==
    /\ Len(calls) >= 1
    /\ Len(rendered) = 3
    /\ calls[1].arg = rendered[activations[1]].text

\* C8: rendering invokes nothing: the number of invocations equals the number
\* of activations, and the arguments are the activated items' values in
\* activation order.
C8_CallsMirrorActivations ==
    /\ Len(calls) = Len(activations)
    /\ \A k \in DOMAIN calls : calls[k].arg = EXAMPLES[activations[k]].value
    /\ \A k \in DOMAIN calls : calls[k].cb \in Callbacks

C8_Witness ==
    /\ Len(renderLog) >= 2
    /\ Len(activations) >= 2
    /\ activations[1] # activations[2]
    /\ Len(calls) = 2
    /\ calls[1].arg # calls[2].arg

\* C9: a render without a callback makes no check: it raises nothing and
\* yields the same three items in order; an error arises only at a click.
C9_NoCheckAtRender ==
    /\ "render" \notin errors
    /\ (renderLog # <<>> /\ onExampleClicked = Undefined) =>
          /\ Len(rendered) = 3
          /\ \A i \in 1..3 :
                rendered[i] = [key     |-> i - 1,
                               text    |-> EXAMPLES[i].text,
                               value   |-> EXAMPLES[i].value,
                               onClick |-> Undefined]
    /\ errors # {} => (errors = {"click"} /\ activations # <<>>)
    /\ Len(calls) <= Len(activations)

\* Rendered without a callback, three items on screen, and a click failed.
C9_Witness ==
    /\ renderLog # <<>>
    /\ onExampleClicked = Undefined
    /\ Len(rendered) = 3
    /\ errors = {"click"}
    /\ Len(calls) < Len(activations)

\* C10: every item carries the very callback the caller passed, unwrapped:
\* all items share one onClick, and every function invoked is one a caller
\* supplied.
C10_SameCallbackUnwrapped ==
    /\ \A i \in DOMAIN rendered : rendered[i].onClick = onExampleClicked
    /\ \A i, j \in DOMAIN rendered : rendered[i].onClick = rendered[j].onClick
    /\ \A k \in DOMAIN calls : calls[k].cb \in Callbacks

C10_Witness ==
    /\ Len(rendered) = 3
    /\ onExampleClicked \in Callbacks
    /\ rendered[1].onClick = rendered[3].onClick
    /\ rendered[1].value # rendered[3].value
    /\ calls # <<>>

====
